---- MODULE Spec2Model ----
(***************************************************************************)
(* Model of chat_io (chat-io.c) and the chat ADT (chat.c): a line-oriented *)
(* interpreter of ADD ("+ USER ROOM TOPIC*", body, ".") and QUERY          *)
(* ("? ROOM COUNT? TOPIC*", ".") commands over a linked list of messages.  *)
(*                                                                         *)
(* Text is modelled character by character: a C string is a sequence of    *)
(* one-character strings, and the getline buffer keeps its NUL bytes.      *)
(***************************************************************************)
EXTENDS Integers, Sequences, FiniteSets, TLC

VARIABLES
    inp,      \* lines of stream `in` not yet read by getline (raw, each ends in "\n")
    eof,      \* TRUE when `in` ends after the lines of inp
    cur,      \* the command most recently typed on `in` (what the user meant)
    pre,      \* the message list at the time cur was typed
    head,     \* chat.c: ChatMsgNode *head, the list of messages, first node first
    pc,       \* position of chat_io: "cmd" (outer getline), "body" (inner getline), "done"
    user,     \* chat_io locals of the ADD in progress
    room,
    topics,
    message,
    out,      \* characters written to `out` since cur was typed
    err,      \* characters written to `err` since cur was typed
    added     \* the messages handed to add_chat_msg, in the order of the calls

vars == <<inp, eof, cur, pre, head, pc, user, room, topics, message, out, err,
          added>>

-----------------------------------------------------------------------------
(* Bounds *)

\* Largest number of stored messages before the user stops typing ADDs.
MaxMsgs == 3

-----------------------------------------------------------------------------
(* Characters and <ctype.h> *)

NUL == "NUL"

UpperSeq == <<"A","B","C","D","E","F","G","H","I","J","K","L","M",
              "N","O","P","Q","R","S","T","U","V","W","X","Y","Z">>
LowerSeq == <<"a","b","c","d","e","f","g","h","i","j","k","l","m",
              "n","o","p","q","r","s","t","u","v","w","x","y","z">>
DigitSeq == <<"0","1","2","3","4","5","6","7","8","9">>

SeqRange(s) == { s[i] : i \in 1..Len(s) }

isupper(c) == c \in SeqRange(UpperSeq)
isalpha(c) == c \in SeqRange(UpperSeq) \cup SeqRange(LowerSeq)
isdigit(c) == c \in SeqRange(DigitSeq)
isspace(c) == c \in {" ", "\t", "\n", "\r", "\f"}

tolower(c) ==
    IF isupper(c)
    THEN LowerSeq[CHOOSE i \in 1..Len(UpperSeq) : UpperSeq[i] = c]
    ELSE c

\* chat-io.c to_lowercase: every character of the string through tolower.
to_lowercase(str) == [i \in 1..Len(str) |-> tolower(str[i])]

DigitVal(c) == (CHOOSE i \in 1..Len(DigitSeq) : DigitSeq[i] = c) - 1

\* atoi on a token that has no leading whitespace or sign: the value of its
\* longest prefix of digits (0 when there is none).
RECURSIVE atoi_from(_, _, _)
atoi_from(s, i, acc) ==
    IF i > Len(s) \/ ~isdigit(s[i]) THEN acc
    ELSE atoi_from(s, i + 1, acc * 10 + DigitVal(s[i]))

atoi(s) == atoi_from(s, 1, 0)

-----------------------------------------------------------------------------
(* C strings in the getline buffer *)

\* Index of the first NUL of buf at or after position from (Len(buf)+1 if none).
RECURSIVE NulAt(_, _)
NulAt(buf, from) ==
    IF from > Len(buf) \/ buf[from] = NUL THEN from ELSE NulAt(buf, from + 1)

\* The C string that starts at buf[from] (1-based): up to the first NUL.
CStr(buf, from) == SubSeq(buf, from, NulAt(buf, from) - 1)

\* getline: the raw line followed by its terminating NUL.
getline_buf(l) == l \o <<NUL>>

\* chat_io lines 219-222: overwrite a final newline by NUL.
strip_newline(buf, read) ==
    IF buf[read] = "\n" THEN [buf EXCEPT ![read] = NUL] ELSE buf

RECURSIVE LeadingSpaces(_, _)
LeadingSpaces(s, i) ==
    IF i <= Len(s) /\ isspace(s[i]) THEN LeadingSpaces(s, i + 1) ELSE i - 1

\* Index of the last character kept by the trailing-whitespace scan, which
\* never moves before position lo (`end > start` in the code).
RECURSIVE TrimEnd(_, _, _)
TrimEnd(s, lo, e) ==
    IF e > lo /\ isspace(s[e]) THEN TrimEnd(s, lo, e - 1) ELSE e

\* chat-io.c trim_whitespace, on the buffer (bytes after the new NUL stay).
trim_whitespace(buf) ==
    LET s == CStr(buf, 1)
        k == LeadingSpaces(s, 1)
    IN  IF k = Len(s)
        THEN IF Len(buf) >= 1 THEN [buf EXCEPT ![1] = NUL] ELSE buf
        ELSE LET e    == TrimEnd(s, k + 1, Len(s))
                 buf2 == [buf EXCEPT ![e + 1] = NUL]
                 t    == SubSeq(s, k + 1, e)
             IN  t \o <<NUL>> \o SubSeq(buf2, Len(t) + 2, Len(buf2))

\* All the tokens strtok(str, " ") / strtok(NULL, " ") return, in order.
RECURSIVE strtok_all(_)
strtok_all(s) ==
    IF s = <<>> THEN <<>>
    ELSE IF s[1] = " " THEN strtok_all(Tail(s))
    ELSE LET n == CHOOSE j \in 1..Len(s) :
                      /\ \A i \in 1..j : s[i] # " "
                      /\ (j = Len(s) \/ s[j + 1] = " ")
         IN  <<SubSeq(s, 1, n)>> \o strtok_all(SubSeq(s, n + 1, Len(s)))

\* Concatenation of a sequence of strings.
RECURSIVE Flatten(_)
Flatten(ss) == IF ss = <<>> THEN <<>> ELSE Head(ss) \o Flatten(Tail(ss))

-----------------------------------------------------------------------------
(* Error lines, as the fprintf calls write them *)

E_BAD_USER    == <<"B","A","D","_","U","S","E","R","\n">>
E_BAD_ROOM    == <<"B","A","D","_","R","O","O","M","\n">>
E_BAD_TOPIC   == <<"B","A","D","_","T","O","P","I","C","\n">>
E_NO_MSG      == <<"N","O","_","M","S","G","\n">>
E_BAD_COUNT   == <<"B","A","D","_","C","O","U","N","T","\n">>
E_BAD_COMMAND == <<"B","A","D","_","C","O","M","M","A","N","D","\n">>

-----------------------------------------------------------------------------
(* chat.c: the chat ADT *)

\* create_chat_message: a ChatMsg holding copies of the four arguments
\* (num_topics is the length of topics).
create_chat_message(u, r, m, ts) ==
    [user |-> u, room |-> r, topics |-> ts, message |-> m]

\* A list insertion that leaves the new node's next pointer NULL.
add_chat_msg_unlinked(msg, list) == <<msg>>

\* A list insertion that links the new node after the last one.
add_chat_msg_at_tail(msg, list) == Append(list, msg)

\* add_chat_msg: the new node becomes the head of the list.
add_chat_msg(msg, list) == <<msg>> \o list

\* Inner loop of message_matches_topics: is topic t at position j or later?
RECURSIVE topic_found(_, _, _)
topic_found(mtopics, t, j) ==
    IF j > Len(mtopics) THEN FALSE
    ELSE IF mtopics[j] = t THEN TRUE
    ELSE topic_found(mtopics, t, j + 1)

RECURSIVE matches_from(_, _, _)
matches_from(chat_msg, ts, i) ==
    IF i > Len(ts) THEN TRUE
    ELSE IF ~topic_found(chat_msg.topics, ts[i], 1) THEN FALSE
    ELSE matches_from(chat_msg, ts, i + 1)

\* A filter that is satisfied by any one of the requested topics.
message_matches_any_topic(chat_msg, ts) ==
    IF Len(ts) = 0 THEN TRUE
    ELSE \E i \in 1..Len(ts) : topic_found(chat_msg.topics, ts[i], 1)

\* message_matches_topics: every requested topic is one of the message's.
message_matches_topics(chat_msg, ts) ==
    IF Len(ts) = 0 THEN TRUE ELSE matches_from(chat_msg, ts, 1)

\* is_valid_room: some message of the list has exactly this room string.
RECURSIVE is_valid_room(_, _)
is_valid_room(r, list) ==
    IF list = <<>> THEN FALSE
    ELSE IF r = Head(list).room THEN TRUE
    ELSE is_valid_room(r, Tail(list))

\* Middle loop of is_valid_topics: does some message of the list carry t?
RECURSIVE topic_known(_, _)
topic_known(t, list) ==
    IF list = <<>> THEN FALSE
    ELSE IF topic_found(Head(list).topics, t, 1) THEN TRUE
    ELSE topic_known(t, Tail(list))

RECURSIVE valid_topics_from(_, _, _)
valid_topics_from(ts, i, list) ==
    IF i > Len(ts) THEN TRUE
    ELSE IF ~topic_known(ts[i], list) THEN FALSE
    ELSE valid_topics_from(ts, i + 1, list)

\* is_valid_topics: every requested topic occurs in some stored message.
is_valid_topics(ts, list) ==
    IF Len(ts) = 0 THEN TRUE ELSE valid_topics_from(ts, 1, list)

\* The topics of a header line: a single space between two topics.
RECURSIVE print_topics(_, _)
print_topics(mtopics, i) ==
    IF i > Len(mtopics) THEN <<>>
    ELSE mtopics[i] \o (IF i + 1 <= Len(mtopics) THEN <<" ">> ELSE <<>>)
                    \o print_topics(mtopics, i + 1)

\* display_chat_messages lines 192-203: what is written for one match.
print_message(chat_msg) ==
    chat_msg.user \o <<" ">> \o chat_msg.room \o <<" ">>
        \o print_topics(chat_msg.topics, 1) \o <<"\n">> \o chat_msg.message

\* display_chat_messages lines 185-209: the traversal from `current`, with
\* current_count matches printed so far.  Yields the text written and `found`.
RECURSIVE display_loop(_, _, _, _, _)
display_loop(current, current_count, count, r, ts) ==
    IF current = <<>> \/ ~(current_count < count)
    THEN [text |-> <<>>, found |-> FALSE]
    ELSE LET chat_msg == Head(current)
         IN  IF r = chat_msg.room /\ message_matches_topics(chat_msg, ts)
             THEN LET rest == display_loop(Tail(current), current_count + 1,
                                           count, r, ts)
                  IN  [text  |-> print_message(chat_msg) \o rest.text,
                       found |-> TRUE]
             ELSE display_loop(Tail(current), current_count, count, r, ts)

\* display_chat_messages: everything the call writes to its FILE argument.
display_chat_messages(count, r, ts, list) ==
    LET res == display_loop(list, 0, count, r, ts)
    IN  res.text
        \o (IF res.found = FALSE /\ ~is_valid_room(r, list)
            THEN E_BAD_ROOM ELSE <<>>)
        \o (IF res.found = FALSE /\ Len(ts) > 0 /\ ~is_valid_topics(ts, list)
            THEN E_BAD_TOPIC ELSE <<>>)

-----------------------------------------------------------------------------
(* The commands a user types on `in` *)

\* A command as the user means it: the words of its first line, the lines
\* of its body, and whether the terminating "." line is typed.  A command of
\* kind "other" is only the lines of its body.
Cmd(k, u, r, c, ts, b, t) ==
    [kind |-> k, user |-> u, room |-> r, count |-> c, topics |-> ts,
     body |-> b, term |-> t]

NoCmd == Cmd("none", <<>>, <<>>, <<>>, <<>>, <<>>, FALSE)

\* The words of the first line, each absent word (<<>>) left out.
CmdWords(c) ==
    SelectSeq((IF c.kind = "add" THEN <<c.user, c.room>>
                                 ELSE <<c.room, c.count>>) \o c.topics,
              LAMBDA w : w # <<>>)

HeaderLine(c) ==
    (IF c.kind = "add" THEN <<"+">> ELSE <<"?">>)
        \o Flatten([i \in 1..Len(CmdWords(c)) |-> <<" ">> \o CmdWords(c)[i]])
        \o <<"\n">>

\* The lines the command puts on the stream.
CmdLines(c) ==
    IF c.kind = "other" THEN c.body
    ELSE <<HeaderLine(c)>> \o c.body \o (IF c.term THEN <<<<".", "\n">>>> ELSE <<>>)

W_u == <<"@", "u">>
W_V == <<"@", "V">>
W_w == <<"w">>
R_r == <<"r">>
R_R == <<"R">>
R_s == <<"s">>
R_z == <<"z", "z">>
R_9 == <<"9">>
T_a == <<"#", "a">>
T_A == <<"#", "A">>
T_b == <<"#", "b">>
T_B == <<"#", "B">>
T_n == <<"#", "n">>
J_j == <<"j">>
L_hi   == <<"h", "i", "\n">>
L_yo   == <<"y", "o", "\n">>
L_x    == <<" ", "x", " ", "\n">>
L_ok   == <<"o", "k", "\n">>
L_dotx == <<".", "x", "\n">>
L_plus == <<"+", " ", "@", "u", " ", "r", " ", "#", "a", "\n">>

Add(u, r, ts, b, t) == Cmd("add", u, r, <<>>, ts, b, t)
Query(r, c, ts, t)  == Cmd("query", <<>>, r, c, ts, <<>>, t)
Other(b)            == Cmd("other", <<>>, <<>>, <<>>, <<>>, b, TRUE)

AddCmds ==
    { Add(W_u, R_r, <<T_a>>, <<L_hi>>, TRUE),
      Add(W_V, R_R, <<T_a, T_B>>, <<L_yo, L_x>>, TRUE),
      Add(W_u, R_r, <<T_a, T_B, T_a>>, <<L_hi>>, TRUE),
      Add(W_u, R_s, <<T_b>>, <<L_ok>>, TRUE),
      Add(W_V, R_r, <<T_b>>, <<L_yo>>, TRUE),
      Add(W_u, R_r, <<>>, <<L_hi>>, TRUE),
      Add(W_u, R_r, <<T_a, J_j>>, <<L_hi>>, TRUE),
      Add(W_w, R_9, <<>>, <<L_hi, L_yo>>, TRUE),
      Add(W_w, R_9, <<>>, <<L_plus, L_hi>>, TRUE),
      Add(W_w, R_9, <<>>, <<>>, FALSE),
      Add(W_u, R_9, <<T_a>>, <<L_hi>>, TRUE),
      Add(W_u, R_9, <<J_j>>, <<>>, FALSE),
      Add(W_u, <<>>, <<>>, <<>>, FALSE),
      Add(<<>>, <<>>, <<>>, <<>>, FALSE),
      Add(W_u, R_r, <<J_j>>, <<L_hi>>, TRUE),
      Add(W_u, R_r, <<J_j>>, <<>>, FALSE),
      Add(W_u, R_r, <<T_a>>, <<>>, TRUE),
      Add(W_u, R_r, <<>>, <<>>, TRUE),
      Add(W_u, R_r, <<T_a>>, <<L_hi, L_dotx, L_yo>>, TRUE),
      Add(W_u, R_r, <<T_a>>, <<L_hi>>, FALSE) }

QueryCmds ==
    { Query(R_r, <<>>, <<>>, TRUE),
      Query(R_r, <<"2">>, <<>>, TRUE),
      Query(R_r, <<"3">>, <<T_a>>, TRUE),
      Query(R_r, <<"2">>, <<T_A, T_b>>, TRUE),
      Query(R_r, <<"1", "0">>, <<T_b>>, TRUE),
      Query(R_R, <<"2">>, <<>>, TRUE),
      Query(R_r, <<"0">>, <<>>, TRUE),
      Query(R_z, <<"2">>, <<T_n>>, TRUE),
      Query(R_z, <<>>, <<>>, TRUE),
      Query(R_r, <<>>, <<T_n>>, TRUE),
      Query(R_s, <<"2">>, <<T_a>>, TRUE),
      Query(R_r, <<"2", "x">>, <<>>, TRUE),
      Query(R_9, <<>>, <<>>, TRUE),
      Query(<<>>, <<>>, <<>>, TRUE),
      Query(R_r, <<"2">>, <<J_j>>, TRUE),
      Query(R_r, <<>>, <<T_a, J_j>>, TRUE),
      Query(R_r, <<"2">>, <<>>, FALSE) }

OtherCmds ==
    { Other(<<L_hi>>),
      Other(<<<<".", "\n">>>>),
      Other(<<<<"\n">>>>),
      Other(<<L_dotx>>),
      Other(<<L_x>>) }

Commands == AddCmds \cup QueryCmds \cup OtherCmds

-----------------------------------------------------------------------------
(* chat-io.c: chat_io *)

NULL == <<>>

\* The parameter prompt of chat_io, as main passes it for a terminal.
prompt == <<">", " ">>

\* concatenate_message: strcpy into a fresh buffer, or strcat to the old one.
concatenate_message(msg, line) == IF msg = NULL THEN line ELSE msg \o line

\* The line buffer after lines 219-225 of chat_io.
CommandBuffer(l) == trim_whitespace(strip_newline(getline_buf(l), Len(l)))

\* The maximal run of tokens starting with '#', from token i on, lower-cased
\* (the while loops at lines 256-272 and 350-365).
RECURSIVE collect_topics(_, _)
collect_topics(toks, i) ==
    IF i <= Len(toks) /\ toks[i][1] = "#"
    THEN <<to_lowercase(toks[i])>> \o collect_topics(toks, i + 1)
    ELSE <<>>

Init ==
    /\ inp = <<>>
    /\ eof = FALSE
    /\ cur = NoCmd
    /\ pre = <<>>
    /\ head = <<>>
    /\ pc = "cmd"
    /\ user = NULL
    /\ room = NULL
    /\ topics = NULL
    /\ message = NULL
    /\ out = <<>>
    /\ err = <<>>
    /\ added = <<>>

\* The user types one more command (a command without its terminator is the
\* last thing typed: the stream ends after it).
Type(c) ==
    /\ inp = <<>>
    /\ ~eof
    /\ c.kind = "add" => Len(head) < MaxMsgs
    /\ inp' = CmdLines(c)
    /\ eof' = (c.kind # "other" /\ ~c.term)
    /\ cur' = c
    /\ pre' = head
    /\ out' = <<>>
    /\ err' = <<>>
    /\ UNCHANGED <<head, pc, user, room, topics, message, added>>

\* The user ends the stream.
Close ==
    /\ inp = <<>>
    /\ ~eof
    /\ eof' = TRUE
    /\ UNCHANGED <<inp, cur, pre, head, pc, user, room, topics, message, out, err,
                    added>>

\* Lines 226-278: the first line of an ADD.
AddHeader ==
    /\ pc = "cmd"
    /\ inp # <<>>
    /\ LET line == CommandBuffer(Head(inp))
           toks == strtok_all(CStr(line, 2))
       IN  /\ line[1] = "+"
           /\ inp' = Tail(inp)
           /\ IF ~(Len(toks) >= 1 /\ toks[1][1] = "@")
              THEN /\ err' = err \o E_BAD_USER
                   /\ UNCHANGED <<pc, user, room, topics, message>>
              ELSE IF ~(Len(toks) >= 2 /\ isalpha(toks[2][1]))
              THEN /\ err' = err \o E_BAD_ROOM
                   /\ UNCHANGED <<pc, user, room, topics, message>>
              ELSE IF ~(Len(toks) >= 3 /\ toks[3][1] = "#")
              THEN /\ err' = err \o E_BAD_TOPIC
                   /\ UNCHANGED <<pc, user, room, topics, message>>
              ELSE /\ user' = toks[1]
                   /\ room' = toks[2]
                   /\ topics' = collect_topics(toks, 3)
                   /\ message' = NULL
                   /\ pc' = "body"
                   /\ UNCHANGED err
    /\ UNCHANGED <<eof, cur, pre, head, out, added>>

\* Lines 300-319: the end of an ADD, after the body loop.
FinishAdd ==
    /\ IF user # NULL /\ room # NULL /\ message # NULL
       THEN /\ head' = add_chat_msg(create_chat_message(user, room, message, topics),
                                    head)
            /\ added' = Append(added,
                               create_chat_message(user, room, message, topics))
            /\ UNCHANGED err
       ELSE /\ err' = err \o E_NO_MSG
            /\ UNCHANGED <<head, added>>
    /\ user' = NULL
    /\ room' = NULL
    /\ topics' = NULL
    /\ message' = NULL
    /\ pc' = "cmd"

\* Lines 281-298: one line read by the body loop.
BodyLine ==
    /\ pc = "body"
    /\ inp # <<>>
    /\ inp' = Tail(inp)
    /\ IF Head(inp)[1] = "."
       THEN FinishAdd
       ELSE /\ message' = concatenate_message(message, Head(inp))
            /\ UNCHANGED <<head, pc, user, room, topics, err, added>>
    /\ UNCHANGED <<eof, cur, pre, out>>

\* Line 281: getline reports end of input inside the body loop.
BodyEOF ==
    /\ pc = "body"
    /\ inp = <<>>
    /\ eof
    /\ FinishAdd
    /\ UNCHANGED <<inp, eof, cur, pre, out>>

\* Lines 321-380: a QUERY.
QueryLine ==
    /\ pc = "cmd"
    /\ inp # <<>>
    /\ LET line  == CommandBuffer(Head(inp))
           toks  == strtok_all(CStr(line, 3))
           hasc  == Len(toks) >= 2 /\ isdigit(toks[2][1])
           count == IF hasc THEN atoi(toks[2]) ELSE 1
           t     == IF hasc THEN 3 ELSE 2
           qtops == collect_topics(toks, t)
       IN  /\ line[1] = "?"
           /\ inp' = Tail(inp)
           /\ err' = err \o
                (IF ~(Len(toks) >= 1 /\ isalpha(toks[1][1])) THEN E_BAD_ROOM
                 ELSE IF hasc /\ count < 0 THEN E_BAD_COUNT
                 ELSE IF Len(toks) >= t /\ toks[t][1] # "#" THEN E_BAD_TOPIC
                 ELSE display_chat_messages(count, toks[1], qtops, head))
    /\ UNCHANGED <<eof, cur, pre, head, pc, user, room, topics, message, out,
                    added>>

\* Lines 381-383: a line that starts neither with '+' nor with '?'.
OtherLine ==
    /\ pc = "cmd"
    /\ inp # <<>>
    /\ LET line == CommandBuffer(Head(inp))
       IN  /\ line[1] \notin {"+", "?"}
           /\ inp' = Tail(inp)
           /\ err' = IF line[1] # "." THEN err \o E_BAD_COMMAND ELSE err
    /\ UNCHANGED <<eof, cur, pre, head, pc, user, room, topics, message, out,
                    added>>

\* A command loop that, at the end of the input, clears the condition and
\* reads on instead of returning.
CmdEOF_reads_on ==
    /\ pc = "cmd"
    /\ inp = <<>>
    /\ eof
    /\ eof' = FALSE
    /\ UNCHANGED <<inp, cur, pre, head, pc, user, room, topics, message, out, err,
                    added>>

\* Lines 218 and 386-388: end of input at the outer getline; chat_io returns.
CmdEOF ==
    /\ pc = "cmd"
    /\ inp = <<>>
    /\ eof
    /\ pc' = "done"
    /\ UNCHANGED <<inp, eof, cur, pre, head, user, room, topics, message, out, err,
                    added>>

Next ==
    \/ \E c \in Commands : Type(c)
    \/ Close
    \/ AddHeader
    \/ BodyLine
    \/ BodyEOF
    \/ QueryLine
    \/ OtherLine
    \/ CmdEOF

Spec == Init /\ [][Next]_vars

\* One step of chat_io: a getline of the command loop or of the body loop,
\* with everything done for what it returned.
chat_io_step ==
    \/ AddHeader
    \/ BodyLine
    \/ BodyEOF
    \/ QueryLine
    \/ OtherLine
    \/ CmdEOF

\* A getline of chat_io returns when a line is there to read or the stream
\* has ended: this is when a step of chat_io is possible.
CanStep == pc # "done" /\ (inp # <<>> \/ eof)

\* chat_io is a sequential program that is never suspended for ever: weak
\* fairness of chat_io_step, whose enabling condition is CanStep.
LiveSpec ==
    /\ Init
    /\ [][Next]_vars
    /\ ([]<>(~CanStep) \/ []<><<chat_io_step>>_vars)

-----------------------------------------------------------------------------
(* Vocabulary of the properties *)

IsUser(w)  == w # <<>> /\ w[1] = "@"
IsRoom(w)  == w # <<>> /\ isalpha(w[1])
IsTopic(w) == w # <<>> /\ w[1] = "#"
IsCount(w) == w # <<>> /\ \A i \in 1..Len(w) : isdigit(w[i])

\* The grammar "+ USER ROOM TOPIC*" of the first line of an ADD.
ValidAddHeader(c) ==
    /\ c.kind = "add"
    /\ IsUser(c.user)
    /\ IsRoom(c.room)
    /\ \A i \in 1..Len(c.topics) : IsTopic(c.topics[i])

\* A whole ADD: a valid first line, one or more body lines, the "." line.
ValidAdd(c) == ValidAddHeader(c) /\ c.body # <<>> /\ c.term

\* The value of a COUNT word (1 when the word is absent).
CountOf(c) == IF c.count = <<>> THEN 1 ELSE atoi(c.count)

\* The grammar "? ROOM COUNT? TOPIC*" with a positive COUNT, and the "."
\* line after it.
ValidQuery(c) ==
    /\ c.kind = "query"
    /\ c.term
    /\ IsRoom(c.room)
    /\ c.count # <<>> => IsCount(c.count) /\ CountOf(c) > 0
    /\ \A i \in 1..Len(c.topics) : IsTopic(c.topics[i])

\* The requested topics, case-folded.
TopicsOf(c) == [i \in 1..Len(c.topics) |-> to_lowercase(c.topics[i])]

\* Every line of the command typed last has been read and acted upon.
Processed == cur.kind # "none" /\ inp = <<>> /\ pc # "body"

\* Everything written for the command typed last, on either channel.
Written == out \o err

Reverse(s) == [i \in 1..Len(s) |-> s[Len(s) + 1 - i]]

Min(a, b) == IF a <= b THEN a ELSE b

\* The text of the given messages, one after the other.
PrintAll(msgs) == Flatten([i \in 1..Len(msgs) |-> print_message(msgs[i])])

\* The error codes, each on its line, that are the only text of an error path.
Code(e) == SubSeq(e, 1, Len(e) - 1)

RECURSIVE SplitLines(_)
SplitLines(text) ==
    IF text = <<>> THEN <<>>
    ELSE LET n == CHOOSE j \in 1..Len(text) :
                      /\ \A i \in 1..(j - 1) : text[i] # "\n"
                      /\ (j = Len(text) \/ text[j] = "\n")
         IN  <<SubSeq(text, 1, IF text[n] = "\n" THEN n - 1 ELSE n)>>
                 \o SplitLines(SubSeq(text, n + 1, Len(text)))

\* The code of an error line: the text before ": " (the whole line if none).
CodeOfLine(l) ==
    IF \E i \in 1..Len(l) : l[i] = ":"
    THEN SubSeq(l, 1, (CHOOSE i \in 1..Len(l) :
                           l[i] = ":" /\ \A j \in 1..(i - 1) : l[j] # ":") - 1)
    ELSE l

ErrCodes == [i \in 1..Len(SplitLines(err)) |-> CodeOfLine(SplitLines(err)[i])]

\* No message is shown: the text is empty or holds error lines only.
NoMessageShown(text) ==
    text \in {<<>>, E_BAD_ROOM, E_BAD_TOPIC, E_BAD_COUNT,
              E_BAD_ROOM \o E_BAD_TOPIC}

-----------------------------------------------------------------------------
(* C1: LIFO order and COUNT limit of a QUERY *)

\* The stored messages a QUERY selects, most recently added first (room as
\* stored, requested topics case-folded).
SelectedNewestFirst(c) ==
    SelectSeq(Reverse(added),
              LAMBDA m : m.room = c.room /\ message_matches_topics(m, TopicsOf(c)))

\* C1: after any sequence of commands, a valid QUERY that selects at least
\* one message writes exactly the first min(COUNT, number of selected)
\* selected messages in most-recently-added-first order (COUNT is 1 when
\* absent), and nothing else.
C1_QueryLifoLimit ==
    (Processed /\ ValidQuery(cur) /\ SelectedNewestFirst(cur) # <<>>)
        => Written = PrintAll(SubSeq(SelectedNewestFirst(cur), 1,
                                     Min(CountOf(cur), Len(SelectedNewestFirst(cur)))))

\* Three messages of room r are stored, the two newest differ, and "? r 2"
\* has shown exactly these two, the newest first.
C1_Witness ==
    /\ Processed
    /\ cur = Query(R_r, <<"2">>, <<>>, TRUE)
    /\ Len(SelectedNewestFirst(cur)) = 3
    /\ SelectedNewestFirst(cur)[1] # SelectedNewestFirst(cur)[2]
    /\ Written = print_message(SelectedNewestFirst(cur)[1])
                    \o print_message(SelectedNewestFirst(cur)[2])

-----------------------------------------------------------------------------
(* C3: the topic AND-filter *)

\* A message matches a QUERY: same room, and every requested topic is among
\* the topics of the message.
SpecMatches(m, c) ==
    /\ m.room = c.room
    /\ SeqRange(TopicsOf(c)) \subseteq SeqRange(m.topics)

\* C3: a valid QUERY whose COUNT does not cut the result short shows exactly
\* the stored messages of its room that carry every requested topic (every
\* message of the room when no topic is requested), and no message at all
\* when none does.
C3_TopicAndFilter ==
    (Processed /\ ValidQuery(cur) /\ CountOf(cur) >= Len(head))
        => LET sel == SelectSeq(head, LAMBDA m : SpecMatches(m, cur))
           IN  IF sel # <<>> THEN Written = PrintAll(sel)
                             ELSE NoMessageShown(Written)

\* "? r 2 #A #b" has shown a message with topics a and b and has left out a
\* message of the same room that carries a only.
C3_Witness ==
    /\ Processed
    /\ cur = Query(R_r, <<"2">>, <<T_A, T_b>>, TRUE)
    /\ Len(head) = 2
    /\ \E i, j \in 1..2 :
          /\ head[i].room = R_r /\ head[i].topics = <<T_a>>
          /\ head[j].room = R_r /\ head[j].topics = <<T_a, T_b, T_a>>
          /\ Written = print_message(head[j])

-----------------------------------------------------------------------------
(* C2: a well-formed ADD is accepted silently *)

LowerSet(ws) == { to_lowercase(ws[i]) : i \in 1..Len(ws) }

\* The message carries the user, room, topics and body of the command
\* (words compared without regard to letter case).
Carries(m, c) ==
    /\ to_lowercase(m.user) = to_lowercase(c.user)
    /\ to_lowercase(m.room) = to_lowercase(c.room)
    /\ LowerSet(m.topics) = LowerSet(c.topics)
    /\ m.message = Flatten(c.body)

RemoveAt(s, i) == SubSeq(s, 1, i - 1) \o SubSeq(s, i + 1, Len(s))

\* C2: once a well-formed ADD (valid USER, valid ROOM, zero or more TOPIC
\* words, at least one body line, the "." line) has been processed, the
\* store holds exactly one message more, which carries the command's user,
\* room, topics and body, and nothing was written to out or err.
C2_ValidAddAccepted ==
    (Processed /\ ValidAdd(cur))
        => /\ \E i \in 1..Len(head) :
                 Carries(head[i], cur) /\ RemoveAt(head, i) = pre
           /\ out = <<>>
           /\ err = <<>>

-----------------------------------------------------------------------------
(* C4: stored topics are lower-case, distinct and in first-seen order *)

\* The words of ws, each kept at its first occurrence only.
RECURSIVE DedupFirst(_)
DedupFirst(ws) ==
    IF ws = <<>> THEN <<>>
    ELSE LET front == DedupFirst(SubSeq(ws, 1, Len(ws) - 1))
             last  == ws[Len(ws)]
         IN  IF last \in SeqRange(front) THEN front ELSE Append(front, last)

\* C4: the topics of every stored message are lower-case and pairwise
\* distinct, and the message stored by a well-formed ADD has the distinct
\* case-folded topics of the ADD line in first-seen order.
C4_TopicsDedupLowerOrdered ==
    /\ \A k \in 1..Len(head) :
          /\ \A i \in 1..Len(head[k].topics) :
                head[k].topics[i] = to_lowercase(head[k].topics[i])
          /\ \A i, j \in 1..Len(head[k].topics) :
                i # j => head[k].topics[i] # head[k].topics[j]
    /\ (Processed /\ ValidAdd(cur) /\ Len(head) = Len(pre) + 1)
          => \E k \in 1..Len(head) : head[k].topics = DedupFirst(TopicsOf(cur))

-----------------------------------------------------------------------------
(* C5: USER and ROOM are case-normalized *)

\* C5: the user and the room of every stored message are lower-case, and a
\* valid QUERY, whose COUNT does not cut the result short, shows every stored
\* message that carries the requested topics and whose room is the queried
\* room in any letter casing.
C5_UserRoomCaseFolded ==
    /\ \A k \in 1..Len(head) :
          /\ head[k].user = to_lowercase(head[k].user)
          /\ head[k].room = to_lowercase(head[k].room)
    /\ (Processed /\ ValidQuery(cur) /\ CountOf(cur) >= Len(head))
          => Written = PrintAll(SelectSeq(head, LAMBDA m :
                 /\ to_lowercase(m.room) = to_lowercase(cur.room)
                 /\ SeqRange(TopicsOf(cur)) \subseteq SeqRange(m.topics)))
             \/ ~\E k \in 1..Len(head) :
                    /\ to_lowercase(head[k].room) = to_lowercase(cur.room)
                    /\ SeqRange(TopicsOf(cur)) \subseteq SeqRange(head[k].topics)

-----------------------------------------------------------------------------
(* C6: the blank line that ends a QUERY response *)

RoomKnown(r) ==
    \E k \in 1..Len(head) : to_lowercase(head[k].room) = to_lowercase(r)

TopicKnown(t) ==
    \E k \in 1..Len(head) : to_lowercase(t) \in LowerSet(head[k].topics)

\* The text ends with an empty line: it is that line alone, or the line
\* follows a complete line.
EndsWithBlankLine(text) ==
    /\ Len(text) >= 1
    /\ text[Len(text)] = "\n"
    /\ Len(text) >= 2 => text[Len(text) - 1] = "\n"

\* C6: the response to a valid QUERY whose room and topics are known to the
\* store ends with one blank line, also when no message matches, in which
\* case the blank line is all that is written.
C6_QueryEndsWithBlankLine ==
    (/\ Processed
     /\ ValidQuery(cur)
     /\ RoomKnown(cur.room)
     /\ \A i \in 1..Len(cur.topics) : TopicKnown(cur.topics[i]))
        => /\ EndsWithBlankLine(Written)
           /\ (~\E k \in 1..Len(head) : SpecMatches(head[k], cur))
                 => Written = <<"\n">>

-----------------------------------------------------------------------------
(* C7: first-error-wins for ADD *)

\* The code of the first rule, in the order USER, ROOM, TOPIC, message
\* presence, that the ADD violates.
FirstAddError(c) ==
    IF ~IsUser(c.user) THEN Code(E_BAD_USER)
    ELSE IF ~IsRoom(c.room) THEN Code(E_BAD_ROOM)
    ELSE IF \E i \in 1..Len(c.topics) : ~IsTopic(c.topics[i]) THEN Code(E_BAD_TOPIC)
    ELSE Code(E_NO_MSG)

\* C7: once an ADD that violates a rule of its first line, or that reaches
\* its "." line without a body line, has been processed, err holds exactly
\* one error line, whose code is that of the earliest violated rule, and the
\* store is as it was.
C7_AddFirstErrorWins ==
    (/\ Processed
     /\ cur.kind = "add"
     /\ ~ValidAddHeader(cur) \/ (cur.term /\ cur.body = <<>>))
        => ErrCodes = <<FirstAddError(cur)>> /\ head = pre

-----------------------------------------------------------------------------
(* C8: the existence checks of a QUERY *)

\* C8: a syntactically valid QUERY whose room occurs in no stored message
\* writes the single error line BAD_ROOM; one whose room is known and one of
\* whose topics occurs in no stored message writes the single error line
\* BAD_TOPIC; in both cases no message is shown.
C8_QueryExistenceChecks ==
    (Processed /\ ValidQuery(cur))
        => /\ ~RoomKnown(cur.room)
                => Written = err /\ ErrCodes = <<Code(E_BAD_ROOM)>>
           /\ (/\ RoomKnown(cur.room)
               /\ \E i \in 1..Len(cur.topics) : ~TopicKnown(cur.topics[i]))
                => Written = err /\ ErrCodes = <<Code(E_BAD_TOPIC)>>

-----------------------------------------------------------------------------
(* C9: a COUNT of 0 *)

\* C9: a QUERY with a valid ROOM (here one the store knows) whose next word
\* is all digits and has the value 0 is rejected: the single error line
\* BAD_COUNT is written and no message is shown.
C9_ZeroCountRejected ==
    (/\ Processed
     /\ cur.kind = "query"
     /\ cur.term
     /\ IsRoom(cur.room)
     /\ RoomKnown(cur.room)
     /\ IsCount(cur.count)
     /\ CountOf(cur) = 0)
        => Written = err /\ ErrCodes = <<Code(E_BAD_COUNT)>>

-----------------------------------------------------------------------------
(* C10: one error line per rejected command *)

\* C10: once an ADD with an invalid first line, typed with any number of
\* body lines and its "." line, has been processed, err holds exactly one
\* line and the store is as it was: the rest of the rejected command is
\* discarded.
C10_OneErrorPerRejectedCommand ==
    (Processed /\ cur.kind = "add" /\ ~ValidAddHeader(cur) /\ cur.term)
        => Len(SplitLines(err)) = 1 /\ head = pre

-----------------------------------------------------------------------------
(* C11: every word after ROOM (and COUNT) must be a TOPIC word *)

\* The command line has a valid USER (ADD only) and ROOM, an absent or
\* positive all-digit COUNT, and a word after them that is no TOPIC word.
HasNonTopicWord(c) ==
    /\ c.kind \in {"add", "query"}
    /\ c.kind = "add" => IsUser(c.user)
    /\ IsRoom(c.room)
    /\ c.count # <<>> => IsCount(c.count) /\ CountOf(c) > 0
    /\ \E i \in 1..Len(c.topics) : ~IsTopic(c.topics[i])

\* C11: once an ADD or a QUERY whose line has, after ROOM and the optional
\* COUNT, a word that is no TOPIC word (also after one or more valid topics)
\* has been processed, the first error line written is BAD_TOPIC, nothing
\* was stored and no message was shown.
C11_NonTopicWordRejected ==
    (Processed /\ HasNonTopicWord(cur))
        => /\ ErrCodes # <<>>
           /\ ErrCodes[1] = Code(E_BAD_TOPIC)
           /\ head = pre
           /\ out = <<>>

-----------------------------------------------------------------------------
(* C12: an ADD without a message *)

\* C12: once an ADD with a valid first line (here with at least one topic)
\* that reaches its "." line without a body line, or that is cut short by
\* the end of input before a "." line, has been processed, the single error
\* line NO_MSG was written and nothing was stored.
C12_MissingMessageRejected ==
    (/\ Processed
     /\ ValidAddHeader(cur)
     /\ Len(cur.topics) >= 1
     /\ cur.body = <<>> \/ ~cur.term)
        => ErrCodes = <<Code(E_NO_MSG)>> /\ head = pre

-----------------------------------------------------------------------------
(* C13: the store is append-only *)

-----------------------------------------------------------------------------
(* C14: the header line and the body of a shown message *)

\* The line "<user> <room> <topic1> <topic2> ...": single spaces between the
\* words, then the end of the line.
HeaderLineOf(m) ==
    m.user \o <<" ">> \o m.room
        \o Flatten([i \in 1..Len(m.topics) |-> <<" ">> \o m.topics[i]])
        \o <<"\n">>

\* C14: the message stored by a well-formed ADD has as its body the body
\* lines of the ADD, all of them, in their order and unchanged; and what a
\* valid QUERY shows is, for each message it selects, the header line of the
\* message immediately followed by its stored body.
C14_HeaderAndBodyRoundTrip ==
    /\ (Processed /\ ValidAdd(cur) /\ Len(head) = Len(pre) + 1)
          => Head(head).message = Flatten(cur.body)
    /\ (Processed /\ ValidQuery(cur) /\ SelectedNewestFirst(cur) # <<>>)
          => LET sel == SubSeq(SelectedNewestFirst(cur), 1,
                               Min(CountOf(cur), Len(SelectedNewestFirst(cur))))
             IN  Written = Flatten([i \in 1..Len(sel) |->
                                      HeaderLineOf(sel[i]) \o sel[i].message])

-----------------------------------------------------------------------------
(* C15: results on out, errors on err *)

ErrorCodes ==
    { Code(E_BAD_USER), Code(E_BAD_ROOM), Code(E_BAD_TOPIC), Code(E_NO_MSG),
      Code(E_BAD_COUNT), Code(E_BAD_COMMAND) }

\* The line starts with one of the six error codes.
StartsWithCode(l) ==
    \E c \in ErrorCodes : Len(l) >= Len(c) /\ SubSeq(l, 1, Len(c)) = c

\* C15: every line on err is an error line and no line on out is one: the
\* header lines and bodies a QUERY shows are on out, never on err.
C15_ResultsOnOutErrorsOnErr ==
    /\ \A i \in 1..Len(SplitLines(err)) : StartsWithCode(SplitLines(err)[i])
    /\ \A i \in 1..Len(SplitLines(out)) : ~StartsWithCode(SplitLines(out)[i])

-----------------------------------------------------------------------------
(* C16: the form of an error line *)

\* The line is "<CODE>: <message>" for one of the six codes.
HasErrorForm(l) ==
    \E c \in ErrorCodes :
        /\ Len(l) >= Len(c) + 2
        /\ SubSeq(l, 1, Len(c)) = c
        /\ l[Len(c) + 1] = ":"
        /\ l[Len(c) + 2] = " "

\* C16: every error line written (every line on err that starts with an
\* error code) has the form "<CODE>: <message>".
C16_ErrorLineForm ==
    \A i \in 1..Len(SplitLines(err)) :
        StartsWithCode(SplitLines(err)[i]) => HasErrorForm(SplitLines(err)[i])

-----------------------------------------------------------------------------
(* C17: the body ends only at a line that is exactly "." *)

\* C17: while lines of a well-formed ADD (here with at least one topic) that
\* come after its first line and before its "." line are still unread, the
\* body is still being collected; and once the ADD has been processed the
\* stored body is all of these lines, also those that begin with "." and go
\* on (".x"), and no error was written.
C17_BodyEndsAtLoneDot ==
    (ValidAdd(cur) /\ Len(cur.topics) >= 1)
        => /\ (0 < Len(inp) /\ Len(inp) < Len(CmdLines(cur))) => pc = "body"
           /\ Processed
                 => /\ head = <<create_chat_message(Head(head).user, Head(head).room,
                                                    Flatten(cur.body),
                                                    Head(head).topics)>> \o pre
                    /\ err = <<>>

-----------------------------------------------------------------------------
(* C18: lines between commands *)

\* The words of a line: its maximal runs of characters that are not blanks.
WordsOfLine(l) == strtok_all(SelectSeq(l, LAMBDA ch : ch # "\n"))

\* C18: once a single line typed between commands that starts neither with
\* "+" nor with "?" has been processed, nothing was written if its first
\* word is exactly ".", and otherwise (a blank line, a line such as ".x",
\* any other text) the single error line BAD_COMMAND was written.
C18_StrayLines ==
    (Processed /\ cur.kind = "other" /\ Len(cur.body) = 1)
        => LET ws == WordsOfLine(cur.body[1])
           IN  IF ws # <<>> /\ ws[1] = <<".">>
               THEN Written = <<>>
               ELSE (ws = <<>> \/ ws[1][1] \notin {"+", "?"})
                       => Written = err /\ ErrCodes = <<Code(E_BAD_COMMAND)>>

-----------------------------------------------------------------------------
(* C19: a word that starts with a digit but is not all digits *)

\* C19: once a QUERY with a valid ROOM (here one the store knows) whose next
\* word starts with a digit and contains a character that is no digit ("2x")
\* has been processed, the word was not taken as COUNT: the single error line
\* BAD_TOPIC was written and no message was shown.
C19_DigitPrefixIsNotCount ==
    (/\ Processed
     /\ cur.kind = "query"
     /\ cur.term
     /\ IsRoom(cur.room)
     /\ RoomKnown(cur.room)
     /\ cur.count # <<>>
     /\ isdigit(cur.count[1])
     /\ ~IsCount(cur.count))
        => Written = err /\ ErrCodes = <<Code(E_BAD_TOPIC)>>

-----------------------------------------------------------------------------
(* C20: end of input before the "." line of a QUERY *)

\* C20: once a QUERY line (here for a room the store knows) after which the
\* input ends, before any "." line, has been processed, the query was not
\* run: nothing was written for it, in particular no message.
C20_UnterminatedQueryNotRun ==
    (/\ Processed
     /\ cur.kind = "query"
     /\ IsRoom(cur.room)
     /\ RoomKnown(cur.room)
     /\ ~cur.term)
        => Written = <<>>

-----------------------------------------------------------------------------
(* C21: the store when chat_io returns *)

\* C21: once chat_io has returned at the end of the input, after ADDs that
\* were stored, no message of the list remains allocated: the list is empty.
\* (chat_io frees nothing but its locals and never calls free_chats, so the
\* nodes reachable from head are exactly the messages still allocated.)
C21_StoreReleasedAtReturn ==
    (pc = "done" /\ added # <<>>) => head = <<>>

-----------------------------------------------------------------------------
(* C22: the prompt *)

\* The lines of the command typed last that chat_io has read so far.
LinesRead == IF cur.kind = "none" THEN 0 ELSE Len(CmdLines(cur)) - Len(inp)

\* C22: the prompt was written on out before every read of a line: the text
\* written on out since the command typed last holds at least one prompt for
\* each of its lines read so far.
C22_PromptBeforeEachRead ==
    Len(out) >= Len(prompt) * LinesRead

-----------------------------------------------------------------------------
(* C23: termination *)

\* A step of chat_io takes exactly the first unread line off the stream, or
\* is the getline that finds the stream ended.
ConsumesOneLine ==
    \/ inp # <<>> /\ inp' = Tail(inp)
    \/ inp = <<>> /\ eof /\ inp' = inp

\* C23: every step of the command loop and of the body loop consumes one
\* line of the input (so no line is read twice) or finds the input ended,
\* chat_io never runs again after it returned, and once the input stream has
\* ended chat_io returns.
C23_Terminates ==
    /\ [][chat_io_step => ConsumesOneLine]_vars
    /\ [][pc = "done" => pc' = "done"]_vars
    /\ (eof ~> pc = "done")

\* chat_io has returned after an input of several commands that ended inside
\* the body of an ADD.
C23_Witness ==
    /\ pc = "done"
    /\ eof
    /\ inp = <<>>
    /\ cur.kind = "add"
    /\ ~cur.term
    /\ cur.body # <<>>
    /\ Len(added) >= 2

====
